---- MODULE Spec2Model ----
(***************************************************************************)
(* A model of mpcoord.go: the discovery-driven tunnel coordinator.         *)
(*                                                                         *)
(* Three specifications share the variables below.                         *)
(*   SpecTunnel / FairTunnel : one Tunnel, byte level (forward, l.190-196) *)
(*   SpecInbound             : handleRemoteConnection and its backend      *)
(*   Spec                    : main, startDiscovery, Serve and             *)
(*                             handleLocalConnection of one node           *)
(***************************************************************************)
EXTENDS Naturals, Integers, Sequences, FiniteSets, TLC

\* ------------------------------------------------------------------ bounds
\* longest byte sequence a peer writes into one end of the Tunnel
MaxLen == 2

\* the byte values used (two values are enough to tell damage and reordering)
Byte == {0, 1}

\* polling cycles of the discovery loop that are explored
MaxPolls == 2

\* peers other than this node that FindPeers gives over all polling cycles
MaxFound == 2

\* buffer of the discovery channel (100 in startDiscovery, scaled)
MaxQueue == 1

\* local connections accepted over all listeners
MaxLocalConns == 2

\* inbound streams the transport delivers
MaxInbound == 1

\* dial attempts of handleRemoteConnection
MaxDialAttempts == 60

\* dht.Host().ID()
Self == "self"

\* the other peer identifiers
Peers == {"p1", "p2"}

\* the ports an outbound listener is given (30000 + rand.Intn(10000), two of them)
OutPorts == {1, 2}

\* the ports an incoming backend is given (20000 + rand.Intn(10000), two of them)
InPorts == {1, 2}

\* ------------------------------------------------------------ the process
VARIABLES
    alive,       \* the process runs (FALSE after log.Fatal or the return of main)
    role,        \* name: "relay", "client" or "server"
    remotePeer,  \* the peer given with -c ("" when none is given)
    mpc,         \* where main is: "init", "hang", "recv", "connect", "serve",
                 \* "launch", "runext", "exit"
    handlerSet,  \* SetStreamHandler(Protocol, ...) was called
    peerChan,    \* the channel main ranges over
    chanClosed,  \* close(peerChan) was called
    iters,       \* one record per peer main received, the last one the current
    dpc,         \* the discovery goroutine: "off", "find", "range"
    advertised,  \* discovery.Advertise was called
    found,       \* what FindPeers gave in this polling cycle
    tmpPeerChan, \* what is left of it to range over
    pushed,      \* every peer sent on peerChan by the discovery goroutine (history)
    cycleStart,  \* Len(pushed) when this polling cycle began (history)
    polls,       \* polling cycles begun
    lconns       \* one record per local connection a listener accepted

procVars == <<alive, role, remotePeer>>

mainVars == <<mpc, handlerSet, peerChan, chanClosed, iters>>

discVars == <<dpc, advertised, found, tmpPeerChan, pushed, cycleStart, polls>>

nodeVars == <<alive, role, remotePeer, mpc, handlerSet, peerChan, chanClosed, iters, dpc,
              advertised, found, tmpPeerChan, pushed, cycleStart, polls, lconns>>

\* ------------------------------------------------- the inbound streams
VARIABLES
    hpc,       \* hpc[k]: handleRemoteConnection of stream k: "none", "dial",
               \* "tunnel" (returned, forwarders started), "gaveup" (returned)
    attempt,   \* attempt[k]: net.Dial calls made
    sleeps,    \* sleeps[k]: time.Sleep(time.Second) calls made
    hport,     \* hport[k]: the port the handler drew (0: none yet)
    bport,     \* bport[k]: the PORT the incoming backend was started with
    dport,     \* dport[k]: the port of the last net.Dial (0: none yet)
    hconn,     \* hconn[k]: the connection net.Dial returned (0: none)
    backend,   \* backend[k]: the incoming backend: "none", "starting",
               \* "listening", "exited", "failed"
    launches,  \* launches[k]: runExternal("incoming-connection") calls
    streamOpen, \* streamOpen[k]: the inbound stream is open
    connOpen,  \* connOpen[k]: the dialed connection is open
    fwds       \* fwds[k]: the forwarder tasks started for stream k

inboundVars == <<hpc, attempt, sleeps, hport, bport, dport, hconn, backend,
                 launches, streamOpen, connOpen, fwds>>

\* ------------------------------------------------------------ the Tunnel
VARIABLES
    closeFull,  \* TRUE: stream.Close() closes both directions; FALSE: write side only
    inbuf,      \* inbuf[e]: bytes e's peer wrote that forward has not read yet
    sent,       \* sent[e]: every byte e's peer wrote into e (history)
    eof,        \* eof[e]: e's peer closed its write side
    rst,        \* rst[e]: an I/O error was injected on e (reset by peer)
    out,        \* out[e]: bytes forward wrote into e, as they arrive at e's peer
    hstate,     \* hstate[e]: our handle of e: "open", "wclosed" or "closed"
    fpc,        \* fpc[d]: forwarder of direction d: "off", "copy", "close", "done"
    fwhy        \* fwhy[d]: how io.Copy of direction d ended: "none", "eof", "err"

tunnelVars == <<closeFull, inbuf, sent, eof, rst, out, hstate, fpc, fwhy>>

vars == <<nodeVars, inboundVars, tunnelVars>>

Ends == {"stream", "conn"}

\* "s2c" is forward(conn, stream): stream -> conn; "c2s" is forward(stream, conn)
Dirs == {"s2c", "c2s"}

Src(d) == IF d = "s2c" THEN "stream" ELSE "conn"

Dst(d) == IF d = "s2c" THEN "conn" ELSE "stream"

IsPrefix(s, t) == Len(s) <= Len(t) /\ SubSeq(t, 1, Len(s)) = s

\* what src.Read gives io.Copy: an error on a handle we closed or on a reset
\* endpoint, buffered bytes first, EOF once the peer closed and the buffer is
\* drained, else the read blocks
ReadResult(e) ==
    IF hstate[e] = "closed" \/ rst[e] THEN "err"
    ELSE IF inbuf[e] # <<>> THEN "data"
    ELSE IF eof[e] THEN "eof"
    ELSE "block"

\* whether dst.Write succeeds
Writable(e) == hstate[e] = "open" /\ ~rst[e]

\* the handle state after Close(): a net.Conn closes both directions; a stream
\* closes both directions or its write side only, with the transport's version
Closed(e) ==
    IF e = "conn" \/ closeFull THEN "closed"
    ELSE IF hstate[e] = "closed" THEN "closed" ELSE "wclosed"

\* the Tunnel as the two go statements leave it (l.140-141, l.175-176)
TunnelStarted ==
    /\ closeFull \in BOOLEAN
    /\ inbuf = [e \in Ends |-> <<>>]
    /\ sent = [e \in Ends |-> <<>>]
    /\ eof = [e \in Ends |-> FALSE]
    /\ rst = [e \in Ends |-> FALSE]
    /\ out = [e \in Ends |-> <<>>]
    /\ hstate = [e \in Ends |-> "open"]
    /\ fpc = [d \in Dirs |-> "copy"]
    /\ fwhy = [d \in Dirs |-> "none"]

\* io.Copy, one Read and the Write of what it read (l.191)
CopyChunk(d) ==
    /\ fpc[d] = "copy"
    /\ ReadResult(Src(d)) = "data"
    /\ \E n \in 1..Len(inbuf[Src(d)]) :
        /\ inbuf' = [inbuf EXCEPT ![Src(d)] = SubSeq(@, n + 1, Len(@))]
        /\ IF Writable(Dst(d))
           THEN /\ out' = [out EXCEPT ![Dst(d)] = @ \o SubSeq(inbuf[Src(d)], 1, n)]
                /\ UNCHANGED <<fpc, fwhy>>
           ELSE /\ fpc' = [fpc EXCEPT ![d] = "close"]
                /\ fwhy' = [fwhy EXCEPT ![d] = "err"]
                /\ UNCHANGED out
    /\ UNCHANGED <<closeFull, sent, eof, rst, hstate>>
    /\ UNCHANGED <<nodeVars, inboundVars>>

\* io.Copy returns: nil at end-of-stream, the error otherwise (l.191-194)
CopyEnd(d) ==
    /\ fpc[d] = "copy"
    /\ ReadResult(Src(d)) \in {"eof", "err"}
    /\ fpc' = [fpc EXCEPT ![d] = "close"]
    /\ fwhy' = [fwhy EXCEPT ![d] = ReadResult(Src(d))]
    /\ UNCHANGED <<closeFull, inbuf, sent, eof, rst, out, hstate>>
    /\ UNCHANGED <<nodeVars, inboundVars>>

\* forward without its dst.Close()
CloseDstNever(d) ==
    /\ fpc[d] = "close"
    /\ fpc' = [fpc EXCEPT ![d] = "done"]
    /\ UNCHANGED <<closeFull, inbuf, sent, eof, rst, out, hstate, fwhy>>
    /\ UNCHANGED <<nodeVars, inboundVars>>

\* dst.Close() and the return of forward (l.195-196)
CloseDst(d) ==
    /\ fpc[d] = "close"
    /\ hstate' = [hstate EXCEPT ![Dst(d)] = Closed(Dst(d))]
    /\ fpc' = [fpc EXCEPT ![d] = "done"]
    /\ UNCHANGED <<closeFull, inbuf, sent, eof, rst, out, fwhy>>
    /\ UNCHANGED <<nodeVars, inboundVars>>

\* forward(dst, src), one step of it (l.190-196)
forward(d) == CopyChunk(d) \/ CopyEnd(d) \/ CloseDst(d)

\* the peer of e (the remote node for the stream, the backend for the conn)
\* writes a byte into e
PeerWrite(e) ==
    /\ hstate[e] # "closed" /\ ~eof[e] /\ ~rst[e]
    /\ Len(sent[e]) < MaxLen
    /\ \E b \in Byte :
        /\ inbuf' = [inbuf EXCEPT ![e] = Append(@, b)]
        /\ sent' = [sent EXCEPT ![e] = Append(@, b)]
    /\ UNCHANGED <<closeFull, eof, rst, out, hstate, fpc, fwhy>>
    /\ UNCHANGED <<nodeVars, inboundVars>>

\* the peer of e closes its write side: e reaches end-of-stream
PeerClose(e) ==
    /\ ~eof[e] /\ ~rst[e] /\ hstate[e] # "closed"
    /\ eof' = [eof EXCEPT ![e] = TRUE]
    /\ UNCHANGED <<closeFull, inbuf, sent, rst, out, hstate, fpc, fwhy>>
    /\ UNCHANGED <<nodeVars, inboundVars>>

\* the remote node runs forward too: once it reads the end-of-stream our
\* write-side Close() sent, its forwarders close its connection and then its
\* side of the stream (l.195 on the remote node)
PeerEcho ==
    /\ hstate["stream"] = "wclosed" /\ ~eof["stream"] /\ ~rst["stream"]
    /\ eof' = [eof EXCEPT !["stream"] = TRUE]
    /\ UNCHANGED <<closeFull, inbuf, sent, rst, out, hstate, fpc, fwhy>>
    /\ UNCHANGED <<nodeVars, inboundVars>>

\* an injected I/O error: e is reset
InjectError(e) ==
    /\ ~rst[e] /\ hstate[e] # "closed"
    /\ rst' = [rst EXCEPT ![e] = TRUE]
    /\ UNCHANGED <<closeFull, inbuf, sent, eof, out, hstate, fpc, fwhy>>
    /\ UNCHANGED <<nodeVars, inboundVars>>

\* --------------------------------------------- handleRemoteConnection
Streams == 1..MaxInbound

NoInbound ==
    /\ hpc = [k \in Streams |-> "none"]
    /\ attempt = [k \in Streams |-> 0]
    /\ sleeps = [k \in Streams |-> 0]
    /\ hport = [k \in Streams |-> 0]
    /\ bport = [k \in Streams |-> 0]
    /\ dport = [k \in Streams |-> 0]
    /\ hconn = [k \in Streams |-> 0]
    /\ backend = [k \in Streams |-> "none"]
    /\ launches = [k \in Streams |-> 0]
    /\ streamOpen = [k \in Streams |-> FALSE]
    /\ connOpen = [k \in Streams |-> FALSE]
    /\ fwds = [k \in Streams |-> {}]

\* net.Dial("tcp", ":port") succeeds: a backend listens on the port
Dialable(port) == \E j \in Streams : bport[j] = port /\ backend[j] = "listening"

\* the connection a net.Dial returns: one no earlier dial returned
NewConn == 1 + Cardinality({j \in Streams : hconn[j] # 0})

\* log.Fatal: os.Exit(1), every goroutine of the process stops
Fatal == alive' = FALSE /\ UNCHANGED <<role, remotePeer>>

\* the transport hands a new inbound stream to the handler set in
\* NewProxyService; the handler picks a port and starts the backend
\* asynchronously (l.83-85, l.124-128)
HandlerStart(k) ==
    /\ alive /\ handlerSet
    /\ hpc[k] = "none"
    /\ \E port \in InPorts :
        /\ hport' = [hport EXCEPT ![k] = port]
        /\ bport' = [bport EXCEPT ![k] = port]
    /\ streamOpen' = [streamOpen EXCEPT ![k] = TRUE]
    /\ backend' = [backend EXCEPT ![k] = "starting"]
    /\ launches' = [launches EXCEPT ![k] = @ + 1]
    /\ hpc' = [hpc EXCEPT ![k] = "dial"]
    /\ UNCHANGED <<attempt, sleeps, dport, hconn, connOpen, fwds>>
    /\ UNCHANGED <<nodeVars, tunnelVars>>

\* a failed dial that starts the backend again
DialFailRelaunch(k) ==
    /\ alive
    /\ hpc[k] = "dial" /\ attempt[k] < MaxDialAttempts
    /\ ~Dialable(hport[k])
    /\ attempt' = [attempt EXCEPT ![k] = @ + 1]
    /\ sleeps' = [sleeps EXCEPT ![k] = @ + 1]
    /\ dport' = [dport EXCEPT ![k] = hport[k]]
    /\ launches' = [launches EXCEPT ![k] = @ + 1]
    /\ backend' = [backend EXCEPT ![k] = "starting"]
    /\ UNCHANGED <<hpc, hport, bport, hconn, streamOpen, connOpen, fwds>>
    /\ UNCHANGED <<nodeVars, tunnelVars>>

\* one failed net.Dial, the warning and the sleep of one second (l.131-137)
DialFail(k) ==
    /\ alive
    /\ hpc[k] = "dial" /\ attempt[k] < MaxDialAttempts
    /\ ~Dialable(hport[k])
    /\ attempt' = [attempt EXCEPT ![k] = @ + 1]
    /\ sleeps' = [sleeps EXCEPT ![k] = @ + 1]
    /\ dport' = [dport EXCEPT ![k] = hport[k]]
    /\ UNCHANGED <<hpc, hport, bport, hconn, backend, launches, streamOpen, connOpen, fwds>>
    /\ UNCHANGED <<nodeVars, tunnelVars>>

\* a successful dial that starts the stream -> conn forwarder only
DialOkOneForwarder(k) ==
    /\ alive
    /\ hpc[k] = "dial" /\ attempt[k] < MaxDialAttempts
    /\ Dialable(hport[k])
    /\ attempt' = [attempt EXCEPT ![k] = @ + 1]
    /\ dport' = [dport EXCEPT ![k] = hport[k]]
    /\ hconn' = [hconn EXCEPT ![k] = NewConn]
    /\ connOpen' = [connOpen EXCEPT ![k] = TRUE]
    /\ fwds' = [fwds EXCEPT ![k] = {"s2c"}]
    /\ hpc' = [hpc EXCEPT ![k] = "tunnel"]
    /\ UNCHANGED <<sleeps, hport, bport, backend, launches, streamOpen>>
    /\ UNCHANGED <<nodeVars, tunnelVars>>

\* net.Dial succeeds: both forwarders are started and the handler returns
\* (l.132, l.139-142)
DialOk(k) ==
    /\ alive
    /\ hpc[k] = "dial" /\ attempt[k] < MaxDialAttempts
    /\ Dialable(hport[k])
    /\ attempt' = [attempt EXCEPT ![k] = @ + 1]
    /\ dport' = [dport EXCEPT ![k] = hport[k]]
    /\ hconn' = [hconn EXCEPT ![k] = NewConn]
    /\ connOpen' = [connOpen EXCEPT ![k] = TRUE]
    /\ fwds' = [fwds EXCEPT ![k] = Dirs]
    /\ hpc' = [hpc EXCEPT ![k] = "tunnel"]
    /\ UNCHANGED <<sleeps, hport, bport, backend, launches, streamOpen>>
    /\ UNCHANGED <<nodeVars, tunnelVars>>

\* the loop ends without a connection: the error is logged and the handler
\* returns (l.131, l.144-145)
GiveUp(k) ==
    /\ alive
    /\ hpc[k] = "dial" /\ attempt[k] >= MaxDialAttempts
    /\ hpc' = [hpc EXCEPT ![k] = "gaveup"]
    /\ UNCHANGED <<attempt, sleeps, hport, bport, dport, hconn, backend, launches,
                   streamOpen, connOpen, fwds>>
    /\ UNCHANGED <<nodeVars, tunnelVars>>

\* the incoming backend opens its listening socket (the make target of the
\* Makefile, started by cmd.Run at l.184); the port must be free
BackendListen(k) ==
    /\ alive
    /\ backend[k] = "starting" /\ ~Dialable(bport[k])
    /\ backend' = [backend EXCEPT ![k] = "listening"]
    /\ UNCHANGED <<hpc, attempt, sleeps, hport, bport, dport, hconn, launches,
                   streamOpen, connOpen, fwds>>
    /\ UNCHANGED <<nodeVars, tunnelVars>>

\* cmd.Run returns nil: the backend exited with code 0 (l.184-188)
BackendExit(k) ==
    /\ alive
    /\ backend[k] \in {"starting", "listening"}
    /\ backend' = [backend EXCEPT ![k] = "exited"]
    /\ UNCHANGED <<hpc, attempt, sleeps, hport, bport, dport, hconn, launches,
                   streamOpen, connOpen, fwds>>
    /\ UNCHANGED <<nodeVars, tunnelVars>>

\* cmd.Run returns an error (make cannot start, or exits non-zero):
\* runExternal calls log.Fatal (l.184-187)
BackendFail(k) ==
    /\ alive
    /\ backend[k] \in {"starting", "listening"}
    /\ backend' = [backend EXCEPT ![k] = "failed"]
    /\ Fatal
    /\ UNCHANGED <<hpc, attempt, sleeps, hport, bport, dport, hconn, launches,
                   streamOpen, connOpen, fwds>>
    /\ UNCHANGED <<mainVars, discVars, lconns, tunnelVars>>

\* ------------------------------------------------------- startDiscovery
\* what FindPeers can give in one polling cycle: the peers found, own
\* identifier among them or not, in any order
NoRepeat(q) == \A i, j \in 1..Len(q) : i # j => q[i] # q[j]

\* the peers of q other than this node
Others(q) == SelectSeq(q, LAMBDA x : x # Self)

FoundLists ==
    {q \in UNION {[1..n -> Peers \cup {Self}] : n \in 0..2} : NoRepeat(q)}

\* routingDiscovery.FindPeers starts a polling cycle (l.101-102, and the
\* sleep of a minute that ended the cycle before, l.113)
DiscFind ==
    /\ alive
    /\ dpc = "find" /\ polls < MaxPolls
    /\ \E q \in FoundLists :
        /\ Len(pushed) + Len(Others(q)) <= MaxFound
        /\ found' = q /\ tmpPeerChan' = q
    /\ cycleStart' = Len(pushed)
    /\ polls' = polls + 1
    /\ dpc' = "range"
    /\ UNCHANGED <<advertised, pushed>>
    /\ UNCHANGED <<procVars, mainVars, lconns, inboundVars, tunnelVars>>

\* FindPeers returns an error: log.Fatal (l.103-105)
DiscFindError ==
    /\ alive
    /\ dpc = "find" /\ polls < MaxPolls
    /\ Fatal
    /\ UNCHANGED <<discVars, mainVars, lconns, inboundVars, tunnelVars>>

\* the range without the comparison with the own identifier
DiscNextNoFilter ==
    /\ alive
    /\ dpc = "range" /\ tmpPeerChan # <<>>
    /\ Len(peerChan) < MaxQueue
    /\ peerChan' = Append(peerChan, Head(tmpPeerChan))
    /\ pushed' = Append(pushed, Head(tmpPeerChan))
    /\ tmpPeerChan' = Tail(tmpPeerChan)
    /\ UNCHANGED <<dpc, advertised, found, cycleStart, polls>>
    /\ UNCHANGED <<procVars, mpc, handlerSet, chanClosed, iters, lconns>>
    /\ UNCHANGED <<inboundVars, tunnelVars>>

\* a send that drops the peer when the buffer is full
DiscNextDropWhenFull ==
    /\ alive
    /\ dpc = "range" /\ tmpPeerChan # <<>>
    /\ IF Head(tmpPeerChan) # Self /\ Len(peerChan) < MaxQueue
       THEN /\ peerChan' = Append(peerChan, Head(tmpPeerChan))
            /\ pushed' = Append(pushed, Head(tmpPeerChan))
       ELSE UNCHANGED <<peerChan, pushed>>
    /\ tmpPeerChan' = Tail(tmpPeerChan)
    /\ UNCHANGED <<dpc, advertised, found, cycleStart, polls>>
    /\ UNCHANGED <<procVars, mpc, handlerSet, chanClosed, iters, lconns>>
    /\ UNCHANGED <<inboundVars, tunnelVars>>

\* one turn of the range over tmpPeerChan: a peer other than this node is
\* sent on peerChan, which blocks while the buffer is full (l.107-111)
DiscNext ==
    /\ alive
    /\ dpc = "range" /\ tmpPeerChan # <<>>
    /\ IF Head(tmpPeerChan) # Self
       THEN /\ Len(peerChan) < MaxQueue
            /\ peerChan' = Append(peerChan, Head(tmpPeerChan))
            /\ pushed' = Append(pushed, Head(tmpPeerChan))
       ELSE UNCHANGED <<peerChan, pushed>>
    /\ tmpPeerChan' = Tail(tmpPeerChan)
    /\ UNCHANGED <<dpc, advertised, found, cycleStart, polls>>
    /\ UNCHANGED <<procVars, mpc, handlerSet, chanClosed, iters, lconns>>
    /\ UNCHANGED <<inboundVars, tunnelVars>>

\* tmpPeerChan is drained and closed: the range ends, the goroutine goes to
\* sleep and then round the loop (l.111-114)
DiscCycleEnd ==
    /\ alive
    /\ dpc = "range" /\ tmpPeerChan = <<>>
    /\ dpc' = "find"
    /\ UNCHANGED <<advertised, found, tmpPeerChan, pushed, cycleStart, polls>>
    /\ UNCHANGED <<procVars, mainVars, lconns, inboundVars, tunnelVars>>

\* ------------------------------------------------------------------ main
NoIter == <<>>

\* peer: peerInfo.ID; conn: how host.Connect ended; port: the port drawn at
\* l.341; listening: Serve bound its listener; bindErr: net.Listen failed;
\* backend: the outgoing backend; envPort: the PORT it was started with
NewIter(p) == [peer |-> p, conn |-> "pending", port |-> 0, listening |-> FALSE,
               bindErr |-> FALSE, backend |-> "none", envPort |-> 0]

Cur == iters[Len(iters)]

SetCur(f) == [iters EXCEPT ![Len(iters)] = f]

\* the ports Serve's listeners hold
BoundPorts == {iters[i].port : i \in {j \in 1..Len(iters) : iters[j].listening}}

\* a relay that calls NewProxyService before it blocks
MainRelayRegisters ==
    /\ alive /\ mpc = "init" /\ role = "relay"
    /\ mpc' = "hang"
    /\ handlerSet' = TRUE
    /\ UNCHANGED <<peerChan, chanClosed, iters>>
    /\ UNCHANGED <<procVars, discVars, lconns, inboundVars, tunnelVars>>

\* relay: main blocks on a channel nobody writes to (l.311-313)
MainRelay ==
    /\ alive /\ mpc = "init" /\ role = "relay"
    /\ mpc' = "hang"
    /\ UNCHANGED <<handlerSet, peerChan, chanClosed, iters>>
    /\ UNCHANGED <<procVars, discVars, lconns, inboundVars, tunnelVars>>

\* a client that starts the discovery goroutine as well
MainClientDiscovers ==
    /\ alive /\ mpc = "init" /\ role = "client"
    /\ handlerSet' = TRUE
    /\ peerChan' = <<remotePeer>>
    /\ advertised' = TRUE
    /\ dpc' = "find"
    /\ mpc' = "recv"
    /\ UNCHANGED <<chanClosed, iters>>
    /\ UNCHANGED <<found, tmpPeerChan, pushed, cycleStart, polls>>
    /\ UNCHANGED <<procVars, lconns, inboundVars, tunnelVars>>

\* client: NewProxyService sets the stream handler, the given peer is put on
\* a channel of one element and the channel is closed (l.317-324, l.79-90)
MainClient ==
    /\ alive /\ mpc = "init" /\ role = "client"
    /\ handlerSet' = TRUE
    /\ peerChan' = <<remotePeer>>
    /\ chanClosed' = TRUE
    /\ mpc' = "recv"
    /\ UNCHANGED iters
    /\ UNCHANGED <<procVars, discVars, lconns, inboundVars, tunnelVars>>

\* server: NewProxyService sets the stream handler and startDiscovery
\* advertises, makes the channel and starts the polling goroutine
\* (l.317-318, l.325-328, l.92-100, l.117)
MainServer ==
    /\ alive /\ mpc = "init" /\ role = "server"
    /\ handlerSet' = TRUE
    /\ advertised' = TRUE
    /\ peerChan' = <<>>
    /\ dpc' = "find"
    /\ mpc' = "recv"
    /\ UNCHANGED <<chanClosed, iters>>
    /\ UNCHANGED <<found, tmpPeerChan, pushed, cycleStart, polls>>
    /\ UNCHANGED <<procVars, lconns, inboundVars, tunnelVars>>

\* the range over peerChan receives a peer (l.330-332)
MainReceive ==
    /\ alive /\ mpc = "recv"
    /\ peerChan # <<>>
    /\ iters' = Append(iters, NewIter(Head(peerChan)))
    /\ peerChan' = Tail(peerChan)
    /\ mpc' = "connect"
    /\ UNCHANGED <<handlerSet, chanClosed>>
    /\ UNCHANGED <<procVars, discVars, lconns, inboundVars, tunnelVars>>

\* a return of main that waits for the handlers and forwarders to finish
MainReturnWaits ==
    /\ alive /\ mpc = "recv"
    /\ peerChan = <<>> /\ chanClosed
    /\ \A c \in 1..Len(lconns) : lconns[c].st = "dropped"
    /\ mpc' = "exit"
    /\ alive' = FALSE
    /\ UNCHANGED <<role, remotePeer, handlerSet, peerChan, chanClosed, iters>>
    /\ UNCHANGED <<discVars, lconns, inboundVars, tunnelVars>>

\* the channel is closed and empty: the range ends, main returns and the
\* process exits (l.330, l.346-349)
MainReturn ==
    /\ alive /\ mpc = "recv"
    /\ peerChan = <<>> /\ chanClosed
    /\ mpc' = "exit"
    /\ alive' = FALSE
    /\ UNCHANGED <<role, remotePeer, handlerSet, peerChan, chanClosed, iters>>
    /\ UNCHANGED <<discVars, lconns, inboundVars, tunnelVars>>

\* a failed connect that ends the process
ConnectFailFatal ==
    /\ alive /\ mpc = "connect"
    /\ iters' = SetCur([Cur EXCEPT !.conn = "failed"])
    /\ mpc' = "exit"
    /\ alive' = FALSE
    /\ UNCHANGED <<role, remotePeer, handlerSet, peerChan, chanClosed>>
    /\ UNCHANGED <<discVars, lconns, inboundVars, tunnelVars>>

\* host.Connect fails: logged, and on to the next peer (l.335-339)
ConnectFail ==
    /\ alive /\ mpc = "connect"
    /\ iters' = SetCur([Cur EXCEPT !.conn = "failed"])
    /\ mpc' = "recv"
    /\ UNCHANGED <<handlerSet, peerChan, chanClosed>>
    /\ UNCHANGED <<procVars, discVars, lconns, inboundVars, tunnelVars>>

\* host.Connect succeeds and a port is drawn (l.335-341)
ConnectOk ==
    /\ alive /\ mpc = "connect"
    /\ \E port \in OutPorts :
        iters' = SetCur([Cur EXCEPT !.conn = "ok", !.port = port])
    /\ mpc' = "serve"
    /\ UNCHANGED <<handlerSet, peerChan, chanClosed>>
    /\ UNCHANGED <<procVars, discVars, lconns, inboundVars, tunnelVars>>

\* a Serve that returns before its listener is bound
ServeListenLater ==
    /\ alive /\ mpc = "serve"
    /\ mpc' = "launch"
    /\ UNCHANGED <<handlerSet, peerChan, chanClosed, iters>>
    /\ UNCHANGED <<procVars, discVars, lconns, inboundVars, tunnelVars>>

\* proxy.Serve: net.Listen binds the port and the accept goroutine is
\* started (l.343, l.147-162)
ServeListen ==
    /\ alive /\ mpc = "serve"
    /\ Cur.port \notin BoundPorts
    /\ iters' = SetCur([Cur EXCEPT !.listening = TRUE])
    /\ mpc' = "launch"
    /\ UNCHANGED <<handlerSet, peerChan, chanClosed>>
    /\ UNCHANGED <<procVars, discVars, lconns, inboundVars, tunnelVars>>

\* net.Listen fails (the port is taken): log.Fatal (l.149-152)
ServeListenError ==
    /\ alive /\ mpc = "serve"
    /\ iters' = SetCur([Cur EXCEPT !.bindErr = TRUE])
    /\ Fatal
    /\ UNCHANGED <<mpc, handlerSet, peerChan, chanClosed>>
    /\ UNCHANGED <<discVars, lconns, inboundVars, tunnelVars>>

\* an outgoing backend started without waiting for it
LaunchOutgoingAsync ==
    /\ alive /\ mpc = "launch"
    /\ iters' = SetCur([Cur EXCEPT !.backend = "running", !.envPort = Cur.port])
    /\ mpc' = "recv"
    /\ UNCHANGED <<handlerSet, peerChan, chanClosed>>
    /\ UNCHANGED <<procVars, discVars, lconns, inboundVars, tunnelVars>>

\* runExternal("outgoing-connection", port): cmd.Run starts the backend and
\* waits for it (l.345, l.179-184)
LaunchOutgoing ==
    /\ alive /\ mpc = "launch"
    /\ iters' = SetCur([Cur EXCEPT !.backend = "running", !.envPort = Cur.port])
    /\ mpc' = "runext"
    /\ UNCHANGED <<handlerSet, peerChan, chanClosed>>
    /\ UNCHANGED <<procVars, discVars, lconns, inboundVars, tunnelVars>>

\* a return of runExternal that closes the listener of the peer
OutgoingExitClosesListener ==
    /\ alive /\ mpc = "runext"
    /\ iters' = SetCur([Cur EXCEPT !.backend = "exited", !.listening = FALSE])
    /\ mpc' = "recv"
    /\ UNCHANGED <<handlerSet, peerChan, chanClosed>>
    /\ UNCHANGED <<procVars, discVars, lconns, inboundVars, tunnelVars>>

\* the outgoing backend exits with code 0: runExternal returns and main goes
\* round the loop (l.184-188, l.346)
OutgoingExit ==
    /\ alive /\ mpc = "runext"
    /\ iters' = SetCur([Cur EXCEPT !.backend = "exited"])
    /\ mpc' = "recv"
    /\ UNCHANGED <<handlerSet, peerChan, chanClosed>>
    /\ UNCHANGED <<procVars, discVars, lconns, inboundVars, tunnelVars>>

\* cmd.Run returns an error (make cannot start, or exits non-zero):
\* runExternal calls log.Fatal (l.184-187)
OutgoingFail ==
    /\ alive /\ mpc \in {"launch", "runext"}
    /\ iters' = SetCur([Cur EXCEPT !.backend = "failed", !.envPort = Cur.port])
    /\ Fatal
    /\ UNCHANGED <<mpc, handlerSet, peerChan, chanClosed>>
    /\ UNCHANGED <<discVars, lconns, inboundVars, tunnelVars>>

\* ------------------------------------- Serve and handleLocalConnection
Listening == {i \in 1..Len(iters) : iters[i].listening}

\* an accept loop that runs the handler itself: no Accept while a handler of
\* this listener waits for its stream
AcceptInline(i) ==
    /\ alive /\ i \in Listening
    /\ \A c \in 1..Len(lconns) : ~(lconns[c].iter = i /\ lconns[c].st = "opening")
    /\ Len(lconns) < MaxLocalConns
    /\ lconns' = Append(lconns, [iter |-> i, st |-> "opening", open |-> TRUE,
                                 stream |-> 0, fwds |-> {}])
    /\ UNCHANGED <<procVars, mainVars, discVars, inboundVars, tunnelVars>>

\* ln.Accept returns a connection and its handler goroutine is started
\* (l.154-159)
Accept(i) ==
    /\ alive /\ i \in Listening
    /\ Len(lconns) < MaxLocalConns
    /\ lconns' = Append(lconns, [iter |-> i, st |-> "opening", open |-> TRUE,
                                 stream |-> 0, fwds |-> {}])
    /\ UNCHANGED <<procVars, mainVars, discVars, inboundVars, tunnelVars>>

\* ln.Accept returns an error: log.Fatal (l.155-158)
AcceptError(i) ==
    /\ alive /\ i \in Listening
    /\ Fatal
    /\ UNCHANGED <<mainVars, discVars, lconns, inboundVars, tunnelVars>>

\* the stream a host.NewStream returns: one no earlier call returned
NewStreamId == 1 + Cardinality({c \in 1..Len(lconns) : lconns[c].stream # 0})

\* a handler that takes the stream already open to the peer, if there is one
StreamOpenedPooled(c) ==
    /\ alive /\ lconns[c].st = "opening"
    /\ lconns' = [lconns EXCEPT ![c].st = "tunnel", ![c].stream = lconns[c].iter,
                                ![c].fwds = Dirs]
    /\ UNCHANGED <<procVars, mainVars, discVars, inboundVars, tunnelVars>>

\* host.NewStream succeeds: both forwarders are started (l.168, l.174-177)
StreamOpened(c) ==
    /\ alive /\ lconns[c].st = "opening"
    /\ lconns' = [lconns EXCEPT ![c].st = "tunnel", ![c].stream = NewStreamId,
                                ![c].fwds = Dirs]
    /\ UNCHANGED <<procVars, mainVars, discVars, inboundVars, tunnelVars>>

\* host.NewStream fails: the error is logged and the handler returns; conn
\* is left as it is (l.168-172)
StreamFailed(c) ==
    /\ alive /\ lconns[c].st = "opening"
    /\ lconns' = [lconns EXCEPT ![c].st = "dropped"]
    /\ UNCHANGED <<procVars, mainVars, discVars, inboundVars, tunnelVars>>

\* -------------------------------------------------------- specifications
\* no Tunnel is followed byte by byte
NoTunnel ==
    /\ closeFull = FALSE
    /\ inbuf = [e \in Ends |-> <<>>]
    /\ sent = [e \in Ends |-> <<>>]
    /\ eof = [e \in Ends |-> FALSE]
    /\ rst = [e \in Ends |-> FALSE]
    /\ out = [e \in Ends |-> <<>>]
    /\ hstate = [e \in Ends |-> "open"]
    /\ fpc = [d \in Dirs |-> "off"]
    /\ fwhy = [d \in Dirs |-> "none"]

\* main at l.311: the host is made, the address file written, nothing started
Started(r) ==
    /\ alive = TRUE
    /\ role = r
    /\ remotePeer \in (IF r = "client" THEN Peers ELSE {""})
    /\ mpc = "init"
    /\ handlerSet = FALSE
    /\ peerChan = <<>>
    /\ chanClosed = FALSE
    /\ iters = NoIter
    /\ dpc = "off"
    /\ advertised = FALSE
    /\ found = <<>>
    /\ tmpPeerChan = <<>>
    /\ pushed = <<>>
    /\ cycleStart = 0
    /\ polls = 0
    /\ lconns = <<>>

\* a server node whose main waits for a peer, discovery not followed
Waiting ==
    /\ alive = TRUE
    /\ role = "server"
    /\ remotePeer = ""
    /\ mpc = "recv"
    /\ handlerSet = TRUE
    /\ peerChan = <<>>
    /\ chanClosed = FALSE
    /\ iters = NoIter
    /\ dpc = "off"
    /\ advertised = TRUE
    /\ found = <<>>
    /\ tmpPeerChan = <<>>
    /\ pushed = <<>>
    /\ cycleStart = 0
    /\ polls = 0
    /\ lconns = <<>>

Init ==
    /\ \E r \in {"relay", "client", "server"} : Started(r)
    /\ NoInbound
    /\ NoTunnel

Next ==
    \/ MainRelay
    \/ MainClient
    \/ MainServer
    \/ MainReceive
    \/ MainReturn
    \/ ConnectFail
    \/ ConnectOk
    \/ ServeListen
    \/ ServeListenError
    \/ LaunchOutgoing
    \/ OutgoingExit
    \/ OutgoingFail
    \/ DiscFind
    \/ DiscFindError
    \/ DiscNext
    \/ DiscCycleEnd
    \/ \E i \in 1..Len(iters) : Accept(i)
    \/ \E i \in 1..Len(iters) : AcceptError(i)
    \/ \E c \in 1..Len(lconns) : StreamOpened(c)
    \/ \E c \in 1..Len(lconns) : StreamFailed(c)

Spec == Init /\ [][Next]_vars

InitInbound == Waiting /\ NoInbound /\ NoTunnel

NextInbound ==
    \/ \E k \in Streams : HandlerStart(k)
    \/ \E k \in Streams : DialFail(k)
    \/ \E k \in Streams : DialOk(k)
    \/ \E k \in Streams : GiveUp(k)
    \/ \E k \in Streams : BackendListen(k)
    \/ \E k \in Streams : BackendExit(k)
    \/ \E k \in Streams : BackendFail(k)

SpecInbound == InitInbound /\ [][NextInbound]_vars

InitTunnel == Waiting /\ NoInbound /\ TunnelStarted

NextTunnel ==
    \/ \E d \in Dirs : forward(d)
    \/ \E e \in Ends : PeerWrite(e)
    \/ \E e \in Ends : PeerClose(e)
    \/ PeerEcho
    \/ \E e \in Ends : InjectError(e)

SpecTunnel == InitTunnel /\ [][NextTunnel]_vars

\* goroutines are scheduled fairly, on this node and on the remote one
FairTunnel ==
    /\ SpecTunnel
    /\ \A d \in Dirs : WF_vars(forward(d))
    /\ WF_vars(PeerEcho)

\* ------------------------------------------------------------------ claims

\* no I/O error was injected into the Tunnel
NoErrorInjected == \A e \in Ends : ~rst[e]

TunnelFinished == \A d \in Dirs : fpc[d] = "done"

\* e is closed: by our Close(), or write-closed by us and ended by its peer
EndClosed(e) == hstate[e] = "closed" \/ (hstate[e] = "wclosed" /\ (eof[e] \/ rst[e]))

\* C1 (as claimed): when no I/O error is injected, every byte sequence written
\* into one end of the Tunnel has arrived whole and in order at the other end
\* once the Tunnel has finished, in each direction whatever the other one did.
C1_AllBytesArrive ==
    (NoErrorInjected /\ TunnelFinished) =>
        \A d \in Dirs : out[Dst(d)] = sent[Src(d)]

\* what does hold of forward: the bytes that arrive are a prefix of the bytes
\* written, and all of them when io.Copy of that direction ended at end-of-stream
ForwardedPrefix ==
    \A d \in Dirs :
        /\ IsPrefix(out[Dst(d)], sent[Src(d)])
        /\ (fwhy[d] = "eof" /\ NoErrorInjected) => out[Dst(d)] = sent[Src(d)]

C3_DialRetry ==
    /\ [](\A k \in Streams :
            /\ attempt[k] <= 60
            /\ sleeps[k] = IF connOpen[k] THEN attempt[k] - 1 ELSE attempt[k]
            /\ connOpen[k] <=> hpc[k] = "tunnel"
            /\ hpc[k] = "tunnel" => fwds[k] = {"s2c", "c2s"})
    /\ [][\A k \in Streams :
            /\ (hpc[k] = "dial" /\ attempt[k] < 60 /\ Dialable(hport[k])
                    /\ attempt'[k] # attempt[k])
                => (hpc'[k] = "tunnel" /\ fwds'[k] = {"s2c", "c2s"})
            /\ hpc[k] \in {"tunnel", "gaveup"}
                => (attempt'[k] = attempt[k] /\ hpc'[k] = hpc[k])]_vars

\* C3's case: the backend came up for the 60th attempt, after 59 failed ones
C3_Witness ==
    \E k \in Streams :
        hpc[k] = "tunnel" /\ attempt[k] = 60 /\ sleeps[k] = 59 /\ fwds[k] = Dirs

\* C4 (as claimed): when all 60 dial attempts failed the handler has closed the
\* inbound stream and has started no forwarder for it.
C4_GiveUpClosesStream ==
    \A k \in Streams :
        hpc[k] = "gaveup" => (~streamOpen[k] /\ fwds[k] = {})

\* C5: the discovery loop never sends the node's own identifier on the
\* channel, and in every polling cycle it sends every other peer FindPeers
\* gave, in the order given.
C5_SelfNeverPushed ==
    /\ \A i \in 1..Len(pushed) : pushed[i] # Self
    /\ role = "server" => \A i \in 1..Len(peerChan) : peerChan[i] # Self
    /\ SubSeq(pushed, cycleStart + 1, Len(pushed))
        = SelectSeq(SubSeq(found, 1, Len(found) - Len(tmpPeerChan)),
                    LAMBDA x : x # "self")

\* C5's case: a polling cycle whose result held the node itself and another
\* peer has been ranged over to its end
C5_Witness ==
    /\ dpc = "find" /\ polls > 0
    /\ \E i, j \in 1..Len(found) : found[i] = Self /\ found[j] # Self
    /\ Len(pushed) > cycleStart

\* C6: a peer whose host.Connect failed gets no listener and no outgoing
\* backend; the failing step leaves the process running and main back at the
\* receive from the channel.
C6_ConnectFailureSkipsPeer ==
    /\ [](\A i \in 1..Len(iters) :
            iters[i].conn = "failed" =>
                /\ ~iters[i].listening /\ iters[i].backend = "none"
                /\ \A c \in 1..Len(lconns) : lconns[c].iter # i
                /\ (i = Len(iters) => mpc = "recv" \/ ~alive))
    /\ [][(mpc = "connect" /\ iters'[Len(iters')].conn = "failed")
            => (alive' /\ mpc' = "recv" /\ peerChan' = peerChan)]_vars

\* C6's case: the connect to one peer failed and a peer received after it has
\* its listener and its backend
C6_Witness ==
    \E i, j \in 1..Len(iters) :
        /\ i < j /\ iters[i].conn = "failed"
        /\ iters[j].listening /\ iters[j].backend = "running"

\* C7 (as claimed): a failure of the outgoing backend leaves the process
\* running.
C7_OutgoingFailureNotFatal ==
    \A i \in 1..Len(iters) : iters[i].backend = "failed" => alive

\* C8 (as claimed): a failure of the incoming backend leaves the process
\* running.
C8_IncomingFailureContained ==
    \A k \in Streams : backend[k] = "failed" => alive

\* C9 (as claimed): a local connection whose stream could not be opened is
\* closed and has no forwarder.
C9_FailedStreamClosesConn ==
    \A c \in 1..Len(lconns) :
        lconns[c].st = "dropped" => (~lconns[c].open /\ lconns[c].fwds = {})

\* C10: a relay node runs and blocks for ever; it sets no stream handler,
\* binds no listener, runs no discovery and launches no backend.
C10_RelayIsNoEndpoint ==
    role = "relay" =>
        /\ alive /\ mpc \in {"init", "hang"}
        /\ ~handlerSet
        /\ Listening = {} /\ lconns = <<>>
        /\ dpc = "off" /\ ~advertised /\ pushed = <<>>
        /\ iters = <<>>
        /\ \A k \in Streams : hpc[k] = "none" /\ backend[k] = "none"

\* C10's case: the relay is past its startup and blocked
C10_Witness == role = "relay" /\ mpc = "hang"

C12_BindFailureNotFatal ==
    \A i \in 1..Len(iters) : iters[i].bindErr => alive

\* the peers main has received, in the order of their receipt
Received == [i \in 1..Len(iters) |-> iters[i].peer]

\* C13: a client never starts the discovery goroutine; its channel holds the
\* given peer and nothing else, main receives that one peer and then finds
\* the channel closed and empty. A server has the discovery goroutine as the
\* source of its channel, which is never closed: main never finds it exhausted.
C13_SourceByRole ==
    /\ role = "client" =>
        /\ dpc = "off" /\ ~advertised /\ polls = 0 /\ pushed = <<>>
        /\ mpc = "init" => (iters = <<>> /\ peerChan = <<>> /\ ~chanClosed)
        /\ mpc # "init" =>
            /\ chanClosed
            /\ Received \o peerChan = <<remotePeer>>
        /\ ENABLED MainReturn => Received = <<remotePeer>>
    /\ role = "server" =>
        /\ mpc # "init" => (dpc # "off" /\ advertised)
        /\ ~chanClosed
        /\ ~ENABLED MainReturn /\ mpc # "exit"

\* C13's case: the client has taken its one peer through the loop and is
\* back at the receive, where the channel is closed and empty
C13_Witness ==
    /\ role = "client" /\ alive /\ mpc = "recv"
    /\ Received = <<remotePeer>> /\ iters[1].backend = "exited"
    /\ peerChan = <<>> /\ chanClosed
    /\ ENABLED MainReturn

C15_ListenerThenBackend ==
    /\ \A i \in 1..Len(iters) :
        /\ iters[i].listening => (iters[i].conn = "ok" /\ iters[i].port \in OutPorts)
        /\ iters[i].backend # "none" =>
            (iters[i].listening /\ iters[i].envPort = iters[i].port)
        /\ iters[i].backend = "none" => iters[i].envPort = 0
        /\ (iters[i].conn = "ok" /\ (i < Len(iters) \/ mpc = "recv")) =>
            (iters[i].listening /\ iters[i].backend = "exited")
        /\ \A j \in 1..Len(iters) :
            (i # j /\ iters[i].listening /\ iters[j].listening)
                => iters[i].port # iters[j].port
    /\ mpc \in {"connect", "serve"} => (~Cur.listening /\ Cur.backend = "none")
    /\ mpc = "launch" => (Cur.listening /\ Cur.backend \in {"none", "failed"})
    /\ mpc = "runext" => (Cur.listening /\ Cur.backend \in {"running", "failed"})

\* C15's case: two connected peers, each with its listener and with a backend
\* started on that listener's port, the second backend still running
C15_Witness ==
    /\ Len(iters) = 2 /\ alive /\ mpc = "runext"
    /\ iters[1].listening /\ iters[1].backend = "exited"
    /\ iters[2].listening /\ iters[2].backend = "running"
    /\ iters[1].port # iters[2].port
    /\ \A i \in 1..2 : iters[i].envPort = iters[i].port

C17_OneLaunchOnePort ==
    /\ [](\A k \in Streams :
            /\ hpc[k] = "none" => (launches[k] = 0 /\ attempt[k] = 0)
            /\ hpc[k] # "none" =>
                /\ launches[k] = 1
                /\ hport[k] \in InPorts /\ bport[k] = hport[k]
            /\ attempt[k] > 0 => dport[k] = bport[k]
            /\ attempt[k] = 0 => dport[k] = 0)
    /\ [][\A k \in Streams :
            /\ launches'[k] # launches[k] => (attempt[k] = 0 /\ attempt'[k] = 0)
            /\ hpc[k] # "none" =>
                /\ launches'[k] = launches[k]
                /\ hport'[k] = hport[k] /\ bport'[k] = bport[k]]_vars

\* C17's case: all 60 dials of a stream failed, and there was one launch and
\* one port throughout
C17_Witness ==
    \E k \in Streams :
        /\ hpc[k] = "gaveup" /\ attempt[k] = 60 /\ sleeps[k] = 60
        /\ launches[k] = 1 /\ dport[k] = bport[k]

\* the iterations whose outgoing backend is running
Running == {i \in 1..Len(iters) : iters[i].backend = "running"}

\* C18: at most one outgoing backend is running, that of the peer main is
\* at, and main is then inside runExternal; main takes the next peer from the
\* channel only at the receive, where no backend is running, so that peers
\* sent meanwhile stay in the channel.
C18_OnePeerAtATime ==
    /\ Cardinality(Running) <= 1
    /\ Running \subseteq {Len(iters)}
    /\ Running # {} => mpc = "runext"
    /\ mpc = "recv" => Running = {}
    /\ mpc # "recv" => ~ENABLED MainReceive
    /\ \A i \in 1..Len(iters) : i < Len(iters) => iters[i].backend \in {"none", "exited"}

\* C18's case: main waits for the backend of the peer it is at, and a peer
\* the discovery goroutine has sent waits in the channel
C18_Witness ==
    /\ alive /\ mpc = "runext"
    /\ Running = {Len(iters)}
    /\ peerChan # <<>> /\ Len(pushed) > Len(iters)

\* C19: no step unbinds a listener or changes its port, and as long as the
\* process runs every bound listener can accept a connection and every
\* accepted connection's handler can open its stream, wherever main is.
C19_ListenerStaysBound ==
    /\ [][\A i \in 1..Len(iters) :
            iters[i].listening =>
                /\ Len(iters') >= i
                /\ iters'[i].listening /\ iters'[i].port = iters[i].port
                /\ iters'[i].peer = iters[i].peer]_vars
    /\ [](alive =>
            /\ \A i \in 1..Len(iters) :
                (iters[i].listening /\ Len(lconns) < MaxLocalConns) => ENABLED Accept(i)
            /\ \A c \in 1..Len(lconns) :
                lconns[c].st = "opening" => ENABLED StreamOpened(c))

\* C19's case: the backend of the first peer has exited and main is busy
\* with a later peer, while a connection the first peer's listener accepted
\* is about to get its stream and the listener can accept another one
C19_Witness ==
    /\ alive /\ mpc \in {"connect", "serve", "launch", "runext"}
    /\ Len(iters) = 2 /\ iters[1].listening /\ iters[1].backend = "exited"
    /\ \E c \in 1..Len(lconns) :
        lconns[c].iter = 1 /\ lconns[c].st = "opening" /\ ENABLED StreamOpened(c)
    /\ ENABLED Accept(1)

\* C20: main has returned only on a client, after its one peer was handled:
\* the connect failed or the outgoing backend exited; the client back at the
\* receive can return at once, whatever handlers and forwarders still run. A
\* server never returns from its loop.
C20_ClientExitsServerLoops ==
    /\ mpc = "exit" =>
        /\ role = "client" /\ ~alive
        /\ Received = <<remotePeer>> /\ peerChan = <<>>
        /\ iters[1].conn = "failed" \/ iters[1].backend = "exited"
    /\ (role = "client" /\ alive /\ mpc = "recv" /\ Len(iters) = 1) => ENABLED MainReturn
    /\ role = "server" => (mpc # "exit" /\ ~ENABLED MainReturn)

\* C20's case: the client's main returned while a Tunnel was up and another
\* handler was still opening its stream
C20_Witness ==
    /\ role = "client" /\ mpc = "exit" /\ ~alive
    /\ iters[1].backend = "exited"
    /\ \E c, d \in 1..Len(lconns) : lconns[c].st = "tunnel" /\ lconns[d].st = "opening"

====
